---- MODULE Spec2Model ----
(***************************************************************************)
(* A model of the photo editor's App component (src/App.tsx): the edit     *)
(* history with its cursor, the asynchronous actions that call the         *)
(* external collaborator, the busy flags, the error state, and the         *)
(* draggable expand rectangle.                                             *)
(*                                                                         *)
(* React state is one variable per useState hook.  An event handler runs   *)
(* to completion on the state of the latest render.  An async handler is   *)
(* split at its await: the part before the await is one action, the part   *)
(* after it (then / catch / finally) another, and the second part reads    *)
(* the values its closure captured when the handler was invoked.           *)
(***************************************************************************)
EXTENDS Integers, Sequences, FiniteSets, TLC

\* ------------------------------------------------------------------ bounds
\* File objects of one run: uploads, crops and collaborator answers.  A call
\* reserves the identity of its answer when it starts, so MaxFiles also bounds the
\* calls of one run.
MaxFiles == 3
\* Pointer coordinates range over -MaxPointer..MaxPointer, and the expand frame is
\* dragged at most MaxPointer beyond each edge of the displayed image.
MaxPointer == 1
\* At most MaxImproving improvePrompt requests are awaiting their answer at once.
MaxImproving == 2
\* A candidate of a collaborator response has at most MaxParts parts.
MaxParts == 2
\* At most MaxLeaked expand requests fail to load their input image.
MaxLeaked == 2

\* --------------------------------------------------------------- variables
VARIABLES
    history,             \* useState<File[]>            App.tsx:44
    historyIndex,        \* useState<number>(-1)        App.tsx:45
    prompt,              \* useState<string>('')        App.tsx:46
    isLoading,           \* App.tsx:47
    isUpscaling,         \* App.tsx:48
    isImprovingPrompt,   \* App.tsx:49
    error,               \* useState<string | null>     App.tsx:50
    activeTab,           \* App.tsx:51
    crop,                \* useState<Crop>(), the selection ReactCrop draws   App.tsx:53
    completedCrop,       \* useState<PixelCrop>()       App.tsx:54
    imageDimensions,     \* App.tsx:58
    expandRect,          \* App.tsx:61
    dragState,           \* App.tsx:62
    isGeneratingImage,   \* App.tsx:69
    isConfirmModalOpen,  \* App.tsx:70
    inflight,            \* collaborator promises not yet settled, with their closures
    nextId,              \* identity of the next File object (a call reserves its answer's)
    containerWidth,      \* laid-out width of the image container (window size)
    renderedWidth,       \* containerWidth as read by the latest render
    loadPending,         \* the <img onLoad> element is mounted and has not fired load
    timerPending,        \* the 50 ms expand-initialisation timer is armed
    improving,           \* improvePrompt promises not yet settled
    retouchReferenceImage, \* useState<File | null>(null)  App.tsx:65
    apiResponse,         \* the GenerateContentResponse handed to handleApiResponse
    apiResult,           \* what handleApiResponse made of it: a data URL or an Error
    objectUrls           \* object URLs created and not revoked, by what they are for

vars == <<history, historyIndex, prompt, isLoading, isUpscaling, error, activeTab,
          crop, completedCrop, imageDimensions, expandRect, dragState, isGeneratingImage,
          isConfirmModalOpen, inflight, nextId, containerWidth, renderedWidth,
          loadPending, timerPending, isImprovingPrompt, improving,
          retouchReferenceImage, apiResponse, apiResult, objectUrls>>

\* ------------------------------------------------------------------ values
\* A value that may be null / undefined is a sequence of length 0 or 1.
Null == <<>>
Some(x) == <<x>>
Val(o) == o[1]

NoError == "null"
Tabs == {"retouch", "adjust", "filters", "expand", "crop"}
Handles == {"n", "s", "e", "w", "ne", "nw", "se", "sw"}

\* The letters a handle's name is composed of.
HandleLetters(handle) ==
    CASE handle = "n" -> {"n"}
      [] handle = "s" -> {"s"}
      [] handle = "e" -> {"e"}
      [] handle = "w" -> {"w"}
      [] handle = "ne" -> {"n", "e"}
      [] handle = "nw" -> {"n", "w"}
      [] handle = "se" -> {"s", "e"}
      [] handle = "sw" -> {"s", "w"}

\* handle.includes(c)
Includes(handle, c) == c \in HandleLetters(handle)

\* Natural pixel sizes of the files a user uploads or the collaborator returns.
NaturalSizes == {<<4, 2>>, <<2, 2>>}
ContainerWidths == {2, 4}
PixelRatios == {1, 2}
Prompts == {"", " ", "p"}

\* prompt.trim()
Trim(p) == IF p = " " THEN "" ELSE p

File(id, w, h) == [id |-> id, width |-> w, height |-> h]

\* Math.round(n / d) for d > 0: the nearest integer, halves towards +infinity.
Round(n, d) == (2 * n + d) \div (2 * d)

\* ------------------------------------------------------------ derived state
\* const currentImage = history[historyIndex] ?? null
currentImage ==
    IF historyIndex >= 0 /\ historyIndex < Len(history)
    THEN Some(history[historyIndex + 1]) ELSE Null

\* const originalImage = history[0] ?? null
originalImage == IF Len(history) > 0 THEN Some(history[1]) ELSE Null

canUndo == historyIndex > 0
canRedo == historyIndex < Len(history) - 1


\* What the render shows (renderContent, App.tsx:511-544, and the modals), and
\* whether the user can click it.  The confirmation modal is a fixed full-window
\* overlay (part_000:21-24): while it is open no control under it receives a
\* click.  While a frame handle is held (dragState is set from mouse-down to
\* mouse-up, App.tsx:155-168, 403-414) the pointer cannot click another control.
PointerFree == dragState = Null
ErrorShown == error # NoError /\ ~isConfirmModalOpen /\ PointerFree
StartShown == error = NoError /\ currentImage = Null /\ ~isConfirmModalOpen /\ PointerFree
EditorShown == error = NoError /\ currentImage # Null /\ ~isConfirmModalOpen /\ PointerFree

\* imgRef.current and imageContainerRef.current are set while the editor is rendered.
RefsMounted == error = NoError /\ currentImage # Null

\* The <img onLoad={handleImageLoad}> of imageDisplay is rendered (App.tsx:561-568,
\* 597-607): not in the error or start view, and not under the crop tab.
OnLoadImgMounted == error = NoError /\ currentImage # Null /\ activeTab # "crop"

\* getBoundingClientRect() of the current <img>, relative to the container: the
\* element is 'absolute top-0 left-0 w-full h-auto' (App.tsx:566), so it starts at
\* the container's corner, is as wide as the container and keeps the file's ratio.
BoxAt(cw, file) ==
    [top |-> 0, left |-> 0, width |-> cw, height |-> (cw * file.height) \div file.width]

imgBox == BoxAt(containerWidth, Val(currentImage))

\* One of the three object-URL effects (App.tsx:171-199) for the dependency
\* going from old to new: the cleanup revokes the URL made for old, the effect
\* creates one for new.
urlEffect(urls, old, new) ==
    IF new = old THEN urls
    ELSE (urls \ (IF old = Null THEN {} ELSE {Val(old)}))
             \cup (IF new = Null THEN {} ELSE {Val(new)})

\* What every React render does to the model's bookkeeping: the ExpandPanel prop
\* displayedImageRect is read anew (App.tsx:731), and an <img> element that is
\* mounted anew, or keyed by a new object URL (App.tsx:171-179, 563), will fire load;
\* the object-URL effects run (App.tsx:171-199).
\* The three effects depend on currentImage, originalImage and
\* retouchReferenceImage, which are unchanged when history, historyIndex and
\* retouchReferenceImage are: no effect runs then.
RenderWith(expandUrls) ==
    /\ renderedWidth' = containerWidth'
    /\ loadPending' = IF ~OnLoadImgMounted' THEN FALSE
                      ELSE IF ~OnLoadImgMounted \/ currentImage' # currentImage THEN TRUE
                      ELSE loadPending
    /\ objectUrls' =
           IF /\ history' = history /\ historyIndex' = historyIndex
              /\ retouchReferenceImage' = retouchReferenceImage
           THEN [objectUrls EXCEPT !.expand = expandUrls]
           ELSE [current |-> urlEffect(objectUrls.current, currentImage, currentImage'),
                 original |-> urlEffect(objectUrls.original, originalImage, originalImage'),
                 reference |-> urlEffect(objectUrls.reference, retouchReferenceImage,
                                         retouchReferenceImage'),
                 expand |-> expandUrls]

Render == RenderWith(objectUrls.expand)

\* ------------------------------------------------------------ history store
\* addImageToHistory's new history and cursor (App.tsx:205-208), from the history
\* and cursor its closure holds.
AddedHistory(hist, idx, file) == Append(SubSeq(hist, 1, idx + 1), file)

\* A cursor taken from the length of the history before the truncation.
AddedIndexFromOldLength(hist, idx, file) == Len(hist)

AddedIndex(hist, idx, file) == Len(AddedHistory(hist, idx, file)) - 1

\* handleUndo / handleRedo / handleReset: the cursor they leave (App.tsx:417-434).
UndoIndexUnguarded(hist, idx) == idx - 1

UndoIndex(hist, idx) == IF idx > 0 THEN idx - 1 ELSE idx

RedoIndex(hist, idx) == IF idx < Len(hist) - 1 THEN idx + 1 ELSE idx

\* A reset that steps back once instead of going to the original.
ResetIndexOneBack(hist, idx) == IF idx > 0 THEN idx - 1 ELSE idx

ResetIndex(hist, idx) == IF Len(hist) > 0 THEN 0 ELSE idx

\* addImageToHistory (App.tsx:204-213).
\* addImageToHistory without its reset of the transient tool state.
addImageToHistoryKeepsTools(hist, idx, file) ==
    /\ history' = AddedHistory(hist, idx, file)
    /\ historyIndex' = AddedIndex(hist, idx, file)
    /\ UNCHANGED <<crop, completedCrop, expandRect>>

addImageToHistory(hist, idx, file) ==
    /\ history' = AddedHistory(hist, idx, file)
    /\ historyIndex' = AddedIndex(hist, idx, file)
    /\ crop' = Null
    /\ completedCrop' = Null
    /\ expandRect' = Null

\* handleImageUpload (App.tsx:215-224).  setActiveTab('retouch') re-runs the
\* activeTab effect, whose cleanup disarms the expand timer (App.tsx:98).
handleImageUpload(file) ==
    /\ error' = NoError
    /\ history' = <<file>>
    /\ historyIndex' = 0
    /\ activeTab' = "retouch"
    /\ crop' = Null
    /\ completedCrop' = Null
    /\ expandRect' = Null
    /\ imageDimensions' = Null
    /\ timerPending' = FALSE

\* handleUploadNew (App.tsx:436-443).
handleUploadNew ==
    /\ history' = <<>>
    /\ historyIndex' = -1
    /\ error' = NoError
    /\ prompt' = ""
    /\ retouchReferenceImage' = Null
    /\ imageDimensions' = Null

\* ------------------------------------------------------- start view actions
\* handleFileSelect (App.tsx:492-496), from the StartScreen.
handleFileSelect(size) ==
    /\ StartShown /\ ~isGeneratingImage
    /\ nextId <= MaxFiles
    /\ handleImageUpload(File(nextId, size[1], size[2]))
    /\ nextId' = nextId + 1
    /\ UNCHANGED <<prompt, isLoading, isUpscaling, dragState, isGeneratingImage,
                   isConfirmModalOpen, inflight, containerWidth>>
    /\ UNCHANGED <<isImprovingPrompt, improving, retouchReferenceImage>>
    /\ UNCHANGED <<apiResponse, apiResult>>
    /\ Render

\* StartScreen onGenerateClick (App.tsx:535).
openGenerateModal ==
    /\ StartShown /\ ~isGeneratingImage
    /\ isGeneratingImage' = TRUE
    /\ UNCHANGED <<history, historyIndex, prompt, isLoading, isUpscaling, error,
                   activeTab, crop, completedCrop, imageDimensions, expandRect, dragState,
                   isConfirmModalOpen, inflight, nextId, containerWidth, timerPending>>
    /\ UNCHANGED <<isImprovingPrompt, improving, retouchReferenceImage>>
    /\ UNCHANGED <<apiResponse, apiResult>>
    /\ Render

\* ImageGenerationModal onClose (App.tsx:538).
closeGenerateModal ==
    /\ StartShown /\ isGeneratingImage
    /\ isGeneratingImage' = FALSE
    /\ UNCHANGED <<history, historyIndex, prompt, isLoading, isUpscaling, error,
                   activeTab, crop, completedCrop, imageDimensions, expandRect, dragState,
                   isConfirmModalOpen, inflight, nextId, containerWidth, timerPending>>
    /\ UNCHANGED <<isImprovingPrompt, improving, retouchReferenceImage>>
    /\ UNCHANGED <<apiResponse, apiResult>>
    /\ Render

\* handleGeneratedImage (App.tsx:226-229), called by the modal's 'Edit This Image'
\* (part_001:85-90) with the file built from the generated image.
handleGeneratedImage(size) ==
    /\ StartShown /\ isGeneratingImage
    /\ nextId <= MaxFiles
    /\ handleImageUpload(File(nextId, size[1], size[2]))
    /\ nextId' = nextId + 1
    /\ isGeneratingImage' = FALSE
    /\ UNCHANGED <<prompt, isLoading, isUpscaling, dragState, isConfirmModalOpen,
                   inflight, containerWidth>>
    /\ UNCHANGED <<isImprovingPrompt, improving, retouchReferenceImage>>
    /\ UNCHANGED <<apiResponse, apiResult>>
    /\ Render

\* ------------------------------------------------------ history navigation
\* The Undo button (App.tsx:737-745, disabled={!canUndo}) and handleUndo.
handleUndo ==
    /\ EditorShown /\ canUndo
    /\ historyIndex' = UndoIndex(history, historyIndex)
    /\ UNCHANGED <<history, prompt, isLoading, isUpscaling, error, activeTab,
                   crop, completedCrop, imageDimensions, expandRect, dragState,
                   isGeneratingImage, isConfirmModalOpen, inflight, nextId,
                   containerWidth, timerPending>>
    /\ UNCHANGED <<isImprovingPrompt, improving, retouchReferenceImage>>
    /\ UNCHANGED <<apiResponse, apiResult>>
    /\ Render

\* The Redo button (App.tsx:746-754, disabled={!canRedo}) and handleRedo.
handleRedo ==
    /\ EditorShown /\ canRedo
    /\ historyIndex' = RedoIndex(history, historyIndex)
    /\ UNCHANGED <<history, prompt, isLoading, isUpscaling, error, activeTab,
                   crop, completedCrop, imageDimensions, expandRect, dragState,
                   isGeneratingImage, isConfirmModalOpen, inflight, nextId,
                   containerWidth, timerPending>>
    /\ UNCHANGED <<isImprovingPrompt, improving, retouchReferenceImage>>
    /\ UNCHANGED <<apiResponse, apiResult>>
    /\ Render

\* The Reset button (App.tsx:773-779, disabled={!canUndo}) and handleReset.
handleReset ==
    /\ EditorShown /\ canUndo
    /\ historyIndex' = ResetIndex(history, historyIndex)
    /\ error' = IF Len(history) > 0 THEN NoError ELSE error
    /\ UNCHANGED <<history, prompt, isLoading, isUpscaling, activeTab,
                   crop, completedCrop, imageDimensions, expandRect, dragState,
                   isGeneratingImage, isConfirmModalOpen, inflight, nextId,
                   containerWidth, timerPending>>
    /\ UNCHANGED <<isImprovingPrompt, improving, retouchReferenceImage>>
    /\ UNCHANGED <<apiResponse, apiResult>>
    /\ Render

\* The Upload New button (App.tsx:780-785).
clickUploadNew ==
    /\ EditorShown
    /\ handleUploadNew
    /\ UNCHANGED <<isLoading, isUpscaling, activeTab, crop, completedCrop, expandRect,
                   dragState, isGeneratingImage, isConfirmModalOpen, inflight, nextId,
                   containerWidth, timerPending>>
    /\ UNCHANGED <<isImprovingPrompt, improving>>
    /\ UNCHANGED <<apiResponse, apiResult>>
    /\ Render

\* A logo click that leaves at once, whatever the cursor.
handleLogoClickUngated ==
    /\ ~isConfirmModalOpen /\ PointerFree
    /\ ~(StartShown /\ isGeneratingImage)
    /\ handleUploadNew
    /\ UNCHANGED <<isConfirmModalOpen, isLoading, isUpscaling, activeTab, crop, completedCrop,
                   expandRect, dragState, isGeneratingImage, inflight, nextId,
                   containerWidth, timerPending>>
    /\ UNCHANGED <<isImprovingPrompt, improving>>
    /\ UNCHANGED <<apiResponse, apiResult>>
    /\ Render

\* handleLogoClick (App.tsx:445-451).  The header is rendered in every view; the
\* two modals are full-window overlays above it.
handleLogoClick ==
    /\ ~isConfirmModalOpen /\ PointerFree
    /\ ~(StartShown /\ isGeneratingImage)
    /\ IF historyIndex > 0
       THEN /\ isConfirmModalOpen' = TRUE
            /\ UNCHANGED <<history, historyIndex, error, prompt, imageDimensions,
                           retouchReferenceImage>>
       ELSE /\ handleUploadNew
            /\ UNCHANGED isConfirmModalOpen
    /\ UNCHANGED <<isLoading, isUpscaling, activeTab, crop, completedCrop, expandRect,
                   dragState, isGeneratingImage, inflight, nextId, containerWidth,
                   timerPending>>
    /\ UNCHANGED <<isImprovingPrompt, improving>>
    /\ UNCHANGED <<apiResponse, apiResult>>
    /\ Render

\* handleConfirmLeave (App.tsx:453-456).
handleConfirmLeave ==
    /\ isConfirmModalOpen /\ PointerFree
    /\ handleUploadNew
    /\ isConfirmModalOpen' = FALSE
    /\ UNCHANGED <<isLoading, isUpscaling, activeTab, crop, completedCrop, expandRect,
                   dragState, isGeneratingImage, inflight, nextId, containerWidth,
                   timerPending>>
    /\ UNCHANGED <<isImprovingPrompt, improving>>
    /\ UNCHANGED <<apiResponse, apiResult>>
    /\ Render

\* handleCancelLeave (App.tsx:458-460).
handleCancelLeave ==
    /\ isConfirmModalOpen /\ PointerFree
    /\ isConfirmModalOpen' = FALSE
    /\ UNCHANGED <<history, historyIndex, prompt, isLoading, isUpscaling, error,
                   activeTab, crop, completedCrop, imageDimensions, expandRect, dragState,
                   isGeneratingImage, inflight, nextId, containerWidth, timerPending>>
    /\ UNCHANGED <<isImprovingPrompt, improving, retouchReferenceImage>>
    /\ UNCHANGED <<apiResponse, apiResult>>
    /\ Render

\* ------------------------------------------------------------- editor view
\* The prompt input's onChange (App.tsx:676-684, disabled={isLoading || ...}).
setPrompt(p) ==
    /\ EditorShown /\ activeTab = "retouch" /\ ~(isLoading \/ isImprovingPrompt)
    /\ p # prompt
    /\ prompt' = p
    /\ UNCHANGED <<history, historyIndex, isLoading, isUpscaling, error, activeTab,
                   crop, completedCrop, imageDimensions, expandRect, dragState,
                   isGeneratingImage, isConfirmModalOpen, inflight, nextId,
                   containerWidth, timerPending>>
    /\ UNCHANGED <<isImprovingPrompt, improving, retouchReferenceImage>>
    /\ UNCHANGED <<apiResponse, apiResult>>
    /\ Render

\* A tab button (App.tsx:651-664) and the activeTab effect (App.tsx:83-102): under
\* the expand tab the effect arms a 50 ms timer, under any other tab it clears the
\* rectangle; its cleanup disarms the timer.
setActiveTab(tab) ==
    /\ EditorShown
    /\ tab # activeTab
    /\ activeTab' = tab
    /\ IF tab = "expand"
       THEN timerPending' = TRUE /\ UNCHANGED expandRect
       ELSE timerPending' = FALSE /\ expandRect' = Null
    /\ UNCHANGED <<history, historyIndex, prompt, isLoading, isUpscaling, error,
                   crop, completedCrop, imageDimensions, dragState, isGeneratingImage,
                   isConfirmModalOpen, inflight, nextId, containerWidth>>
    /\ UNCHANGED <<isImprovingPrompt, improving, retouchReferenceImage>>
    /\ UNCHANGED <<apiResponse, apiResult>>
    /\ Render

\* The timer callback of the activeTab effect (App.tsx:86-97).
expandInitTimer ==
    /\ timerPending
    /\ timerPending' = FALSE
    /\ expandRect' = IF RefsMounted THEN Some(imgBox) ELSE expandRect
    /\ UNCHANGED <<history, historyIndex, prompt, isLoading, isUpscaling, error,
                   activeTab, crop, completedCrop, imageDimensions, dragState,
                   isGeneratingImage, isConfirmModalOpen, inflight, nextId,
                   containerWidth>>
    /\ UNCHANGED <<isImprovingPrompt, improving, retouchReferenceImage>>
    /\ UNCHANGED <<apiResponse, apiResult>>
    /\ Render

\* handleImageLoad (App.tsx:504-509): the load event of the current <img>.
handleImageLoad ==
    /\ loadPending
    /\ loadPending' = FALSE
    /\ imageDimensions' =
          IF imageDimensions = Null
          THEN Some([width |-> Val(currentImage).width, height |-> Val(currentImage).height])
          ELSE imageDimensions
    /\ renderedWidth' = containerWidth
    /\ UNCHANGED <<history, historyIndex, prompt, isLoading, isUpscaling, error,
                   activeTab, crop, completedCrop, expandRect, dragState, isGeneratingImage,
                   isConfirmModalOpen, inflight, nextId, containerWidth, timerPending>>
    /\ UNCHANGED <<isImprovingPrompt, improving, retouchReferenceImage>>
    /\ UNCHANGED <<apiResponse, apiResult, objectUrls>>

\* The window is resized: the layout changes, React state does not, nothing renders.
resize(w) ==
    /\ w # containerWidth
    /\ containerWidth' = w
    /\ UNCHANGED <<history, historyIndex, prompt, isLoading, isUpscaling, error,
                   activeTab, crop, completedCrop, imageDimensions, expandRect, dragState,
                   isGeneratingImage, isConfirmModalOpen, inflight, nextId,
                   renderedWidth, loadPending, timerPending>>
    /\ UNCHANGED <<isImprovingPrompt, improving, retouchReferenceImage>>
    /\ UNCHANGED <<apiResponse, apiResult>>
    /\ UNCHANGED objectUrls

\* The 'Try Again' button of the error view (App.tsx:517-527).
tryAgain ==
    /\ ErrorShown
    /\ error' = NoError
    /\ isLoading' = FALSE
    /\ isUpscaling' = FALSE
    /\ isImprovingPrompt' = FALSE
    /\ UNCHANGED <<history, historyIndex, prompt, activeTab, crop, completedCrop,
                   imageDimensions, expandRect, dragState, isGeneratingImage,
                   isConfirmModalOpen, inflight, nextId, containerWidth, timerPending,
                   improving, retouchReferenceImage>>
    /\ UNCHANGED <<apiResponse, apiResult>>
    /\ Render

\* The selections ReactCrop can report for an image shown in box: a click without
\* a drag (no area), a drag along the top edge (a width and no height), the left
\* half, the whole image.
CropSelections(box) ==
    { [x |-> 0, y |-> 0, width |-> 0, height |-> 0],
      [x |-> 0, y |-> 0, width |-> box.width \div 2, height |-> 0],
      [x |-> 0, y |-> 0, width |-> box.width \div 2, height |-> box.height],
      [x |-> 0, y |-> 0, width |-> box.width, height |-> box.height] }

ShownCropSelections == IF currentImage = Null THEN {} ELSE CropSelections(imgBox)

\* The busy overlay covers the image container (App.tsx:590-595).
OverlayShown == isLoading \/ isUpscaling

\* ReactCrop onComplete (App.tsx:601).
\* A finished selection gesture: ReactCrop's last onChange and its onComplete
\* carry the same pixel crop (App.tsx:597-607).
onCropComplete(c) ==
    /\ EditorShown /\ activeTab = "crop" /\ ~OverlayShown
    /\ crop' = Some(c)
    /\ completedCrop' = Some(c)
    /\ UNCHANGED <<history, historyIndex, prompt, isLoading, isUpscaling, error,
                   activeTab, imageDimensions, expandRect, dragState,
                   isGeneratingImage, isConfirmModalOpen, inflight, nextId,
                   containerWidth, timerPending>>
    /\ UNCHANGED <<isImprovingPrompt, improving, retouchReferenceImage>>
    /\ UNCHANGED <<apiResponse, apiResult>>
    /\ Render

\* -------------------------------------------------------- action coordinator
ActionKinds == {"retouch", "filter", "adjustment", "expand", "upscale"}

\* The promise of a collaborator call and what the handler's closure holds for the
\* code after the await: addImageToHistory with its history and historyIndex
\* (useCallback dependencies, App.tsx:213, 257, 294, 316, 401, 490).
Call(kind, target, offset) ==
    [id |-> nextId, kind |-> kind, hist |-> history, idx |-> historyIndex,
     target |-> target, offset |-> offset]

\* The message of an action's catch block (App.tsx:252, 289, 311, 396, 485).
FailMessage(kind) ==
    CASE kind = "retouch" -> "Failed to generate the image."
      [] kind = "filter" -> "Failed to apply the filter."
      [] kind = "adjustment" -> "Failed to apply the adjustment."
      [] kind = "expand" -> "Failed to expand the image."
      [] kind = "upscale" -> "Failed to upscale image."

\* handleGenerate up to its await (App.tsx:231-246).  It is invoked by the Generate
\* button (disabled={isLoading || !prompt.trim()}, App.tsx:719-726) and by Enter in
\* the prompt input (disabled={isLoading || isImprovingPrompt}, App.tsx:682-683).
handleGenerate ==
    /\ EditorShown /\ activeTab = "retouch" /\ ~isLoading
    \* the Generate button needs a non-blank prompt; Enter in the prompt field
    \* needs the field enabled
    /\ Trim(prompt) # "" \/ ~isImprovingPrompt
    /\ IF currentImage = Null
       THEN /\ error' = "No image loaded to edit."
            /\ UNCHANGED <<isLoading, inflight, nextId>>
       ELSE IF Trim(prompt) = ""
       THEN /\ error' = "Please enter a description for your edit."
            /\ UNCHANGED <<isLoading, inflight, nextId>>
       ELSE /\ nextId <= MaxFiles
            /\ isLoading' = TRUE
            /\ error' = NoError
            /\ inflight' = inflight \cup {Call("retouch", Null, Null)}
            /\ nextId' = nextId + 1
    /\ UNCHANGED <<history, historyIndex, prompt, isUpscaling, activeTab,
                   crop, completedCrop, imageDimensions, expandRect, dragState,
                   isGeneratingImage, isConfirmModalOpen, containerWidth, timerPending>>
    /\ UNCHANGED <<isImprovingPrompt, improving, retouchReferenceImage>>
    /\ UNCHANGED <<apiResponse, apiResult>>
    /\ Render

\* The magic-wand button of the retouch tab (App.tsx:259-272, 692-704): the part
\* of the handler before the await.
handleImprovePrompt ==
    /\ EditorShown /\ activeTab = "retouch" /\ ~(isLoading \/ isImprovingPrompt)
    /\ improving < MaxImproving
    /\ isImprovingPrompt' = TRUE
    /\ error' = NoError
    /\ improving' = improving + 1
    /\ UNCHANGED <<history, historyIndex, prompt, isLoading, isUpscaling, activeTab,
                   crop, completedCrop, imageDimensions, expandRect, dragState,
                   isGeneratingImage, isConfirmModalOpen, inflight, nextId,
                   containerWidth, timerPending, retouchReferenceImage>>
    /\ UNCHANGED <<apiResponse, apiResult>>
    /\ Render

\* improvePrompt answered: setPrompt(newPrompt), then the finally block.
improveResolve(newPrompt) ==
    /\ improving > 0
    /\ prompt' = newPrompt
    /\ isImprovingPrompt' = FALSE
    /\ improving' = improving - 1
    /\ UNCHANGED <<history, historyIndex, isLoading, isUpscaling, error, activeTab,
                   crop, completedCrop, imageDimensions, expandRect, dragState,
                   isGeneratingImage, isConfirmModalOpen, inflight, nextId,
                   containerWidth, timerPending, retouchReferenceImage>>
    /\ UNCHANGED <<apiResponse, apiResult>>
    /\ Render

\* improvePrompt threw: the catch block, then the finally block.
improveReject ==
    /\ improving > 0
    /\ error' = "Failed to improve prompt."
    /\ isImprovingPrompt' = FALSE
    /\ improving' = improving - 1
    /\ UNCHANGED <<history, historyIndex, prompt, isLoading, isUpscaling, activeTab,
                   crop, completedCrop, imageDimensions, expandRect, dragState,
                   isGeneratingImage, isConfirmModalOpen, inflight, nextId,
                   containerWidth, timerPending, retouchReferenceImage>>
    /\ UNCHANGED <<apiResponse, apiResult>>
    /\ Render

\* The files a user picks as reference image.
ReferenceImages == {"ref1", "ref2"}

\* handleReferenceImageSelect (App.tsx:498-502), from the file input of the
\* retouch tab (App.tsx:686-689).
handleReferenceImageSelect(file) ==
    /\ EditorShown /\ activeTab = "retouch"
    /\ retouchReferenceImage # Some(file)
    /\ retouchReferenceImage' = Some(file)
    /\ UNCHANGED <<history, historyIndex, prompt, isLoading, isUpscaling, error,
                   activeTab, crop, completedCrop, imageDimensions, expandRect,
                   dragState, isGeneratingImage, isConfirmModalOpen, inflight, nextId,
                   containerWidth, timerPending, isImprovingPrompt, improving>>
    /\ UNCHANGED <<apiResponse, apiResult>>
    /\ Render

\* The close button of the reference preview (App.tsx:707-717).
removeReferenceImage ==
    /\ EditorShown /\ activeTab = "retouch"
    /\ retouchReferenceImage # Null
    /\ retouchReferenceImage' = Null
    /\ UNCHANGED <<history, historyIndex, prompt, isLoading, isUpscaling, error,
                   activeTab, crop, completedCrop, imageDimensions, expandRect,
                   dragState, isGeneratingImage, isConfirmModalOpen, inflight, nextId,
                   containerWidth, timerPending, isImprovingPrompt, improving>>
    /\ UNCHANGED <<apiResponse, apiResult>>
    /\ Render

\* handleApplyFilter up to its await (App.tsx:274-284), from the FilterPanel's
\* Apply button (disabled={isLoading || !activePrompt.trim()}, part_001:372-374).
handleApplyFilter ==
    /\ EditorShown /\ activeTab = "filters" /\ ~isLoading
    /\ IF currentImage = Null
       THEN /\ error' = "No image loaded to apply a filter to."
            /\ UNCHANGED <<isLoading, inflight, nextId>>
       ELSE /\ nextId <= MaxFiles
            /\ isLoading' = TRUE
            /\ error' = NoError
            /\ inflight' = inflight \cup {Call("filter", Null, Null)}
            /\ nextId' = nextId + 1
    /\ UNCHANGED <<history, historyIndex, prompt, isUpscaling, activeTab,
                   crop, completedCrop, imageDimensions, expandRect, dragState,
                   isGeneratingImage, isConfirmModalOpen, containerWidth, timerPending>>
    /\ UNCHANGED <<isImprovingPrompt, improving, retouchReferenceImage>>
    /\ UNCHANGED <<apiResponse, apiResult>>
    /\ Render

\* handleApplyAdjustment up to its await (App.tsx:296-306), from the
\* AdjustmentPanel's Apply button (AdjustmentPanel.tsx:120-122).
handleApplyAdjustment ==
    /\ EditorShown /\ activeTab = "adjust" /\ ~isLoading
    /\ IF currentImage = Null
       THEN /\ error' = "No image loaded to apply an adjustment to."
            /\ UNCHANGED <<isLoading, inflight, nextId>>
       ELSE /\ nextId <= MaxFiles
            /\ isLoading' = TRUE
            /\ error' = NoError
            /\ inflight' = inflight \cup {Call("adjustment", Null, Null)}
            /\ nextId' = nextId + 1
    /\ UNCHANGED <<history, historyIndex, prompt, isUpscaling, activeTab,
                   crop, completedCrop, imageDimensions, expandRect, dragState,
                   isGeneratingImage, isConfirmModalOpen, containerWidth, timerPending>>
    /\ UNCHANGED <<isImprovingPrompt, improving, retouchReferenceImage>>
    /\ UNCHANGED <<apiResponse, apiResult>>
    /\ Render

\* handleUpscale up to its await (App.tsx:474-480), from the Upscale button
\* (disabled={isUpscaling || isLoading}, App.tsx:788-794).
handleUpscale ==
    /\ EditorShown /\ ~(isUpscaling \/ isLoading)
    /\ currentImage # Null
    /\ nextId <= MaxFiles
    /\ isUpscaling' = TRUE
    /\ error' = NoError
    /\ inflight' = inflight \cup {Call("upscale", Null, Null)}
    /\ nextId' = nextId + 1
    /\ UNCHANGED <<history, historyIndex, prompt, isLoading, activeTab,
                   crop, completedCrop, imageDimensions, expandRect, dragState,
                   isGeneratingImage, isConfirmModalOpen, containerWidth, timerPending>>
    /\ UNCHANGED <<isImprovingPrompt, improving, retouchReferenceImage>>
    /\ UNCHANGED <<apiResponse, apiResult>>
    /\ Render

\* Target size of the new canvas (App.tsx:372-376; the same arithmetic in the
\* ExpandPanel, part_001:415-417): scale = dims.width / box.width.
\* ExpandTarget with the scale taken from the image's height instead of its width.
ExpandTargetByHeight(rect, dims, box) ==
    [width |-> Round(rect.width * dims.height, box.width),
     height |-> Round(rect.height * dims.height, box.width)]

ExpandTarget(rect, dims, box) ==
    [width |-> Round(rect.width * dims.width, box.width),
     height |-> Round(rect.height * dims.width, box.width)]

\* Where the image is placed on the new canvas (App.tsx:379-380).
ExpandOffset(rect, dims, box) ==
    [x |-> Round((box.left - rect.left) * dims.width, box.width),
     y |-> Round((box.top - rect.top) * dims.width, box.width)]

\* 'Check if any expansion happened' (App.tsx:383), negated.
ExpansionHappened(target, dims) ==
    ~(target.width <= dims.width /\ target.height <= dims.height)

\* ExpandPanel's newDimensions (part_001:410-419), from the props of the latest
\* render: the numbers the panel shows.
newDimensions ==
    IF imageDimensions = Null \/ expandRect = Null \/ currentImage = Null THEN Null
    ELSE Some(ExpandTarget(Val(expandRect), Val(imageDimensions),
                           BoxAt(renderedWidth, Val(currentImage))))

\* ExpandPanel's isExpanded (part_001:421).
PanelIsExpanded ==
    /\ newDimensions # Null /\ imageDimensions # Null
    /\ \/ Val(newDimensions).width > Val(imageDimensions).width
       \/ Val(newDimensions).height > Val(imageDimensions).height

\* handleApplyExpand up to its await of the collaborator (App.tsx:362-391), the
\* input image having loaded: its object URL is created and revoked on the way
\* (App.tsx:1056-1064), from the ExpandPanel's
\* button (disabled={isLoading || !isExpanded}, part_001:435-439).
handleApplyExpand ==
    /\ EditorShown /\ activeTab = "expand" /\ ~isLoading /\ PanelIsExpanded
    /\ IF currentImage = Null \/ expandRect = Null \/ imageDimensions = Null
       THEN /\ error' = "Could not determine expansion dimensions."
            /\ UNCHANGED <<isLoading, inflight, nextId>>
       ELSE LET dims == Val(imageDimensions)
                target == ExpandTarget(Val(expandRect), dims, imgBox)
                offset == ExpandOffset(Val(expandRect), dims, imgBox)
            IN  IF ~ExpansionHappened(target, dims)
                THEN /\ error' = "Please expand the frame outwards to generate a larger image."
                     /\ UNCHANGED <<isLoading, inflight, nextId>>
                ELSE /\ nextId <= MaxFiles
                     /\ isLoading' = TRUE
                     /\ error' = NoError
                     /\ inflight' = inflight \cup {Call("expand", Some(target), Some(offset))}
                     /\ nextId' = nextId + 1
    /\ UNCHANGED <<history, historyIndex, prompt, isUpscaling, activeTab,
                   crop, completedCrop, imageDimensions, expandRect, dragState,
                   isGeneratingImage, isConfirmModalOpen, containerWidth, timerPending>>
    /\ UNCHANGED <<isImprovingPrompt, improving, retouchReferenceImage>>
    /\ UNCHANGED <<apiResponse, apiResult>>
    /\ Render

\* handleApplyExpand when generateExpandedImage cannot load its input image
\* (App.tsx:1056-1060): img.onerror rejects the awaited promise after the
\* object URL was created, the revoke of App.tsx:1064 is skipped, and the
\* handler's catch and finally blocks run (App.tsx:394-400).  The load fails
\* before any other event, so the handler is one step.
handleApplyExpandImageError ==
    /\ EditorShown /\ activeTab = "expand" /\ ~isLoading /\ PanelIsExpanded
    /\ currentImage # Null /\ expandRect # Null /\ imageDimensions # Null
    /\ ExpansionHappened(ExpandTarget(Val(expandRect), Val(imageDimensions), imgBox),
                         Val(imageDimensions))
    /\ objectUrls.expand < MaxLeaked
    /\ error' = FailMessage("expand")
    /\ UNCHANGED <<history, historyIndex, prompt, isLoading, isUpscaling, activeTab,
                   crop, completedCrop, imageDimensions, expandRect, dragState,
                   isGeneratingImage, isConfirmModalOpen, inflight, nextId,
                   containerWidth, timerPending, isImprovingPrompt, improving,
                   retouchReferenceImage, apiResponse, apiResult>>
    /\ RenderWith(objectUrls.expand + 1)

\* A finally block that leaves the busy flags as they are.
finallySkipped(kind) == UNCHANGED <<isLoading, isUpscaling>>

\* The finally block of an action: setIsLoading(false), or setIsUpscaling(false)
\* for the upscale (App.tsx:254-256, 291-293, 313-315, 398-400, 487-489).
finallyBlock(kind) ==
    IF kind = "upscale"
    THEN isUpscaling' = FALSE /\ UNCHANGED isLoading
    ELSE isLoading' = FALSE /\ UNCHANGED isUpscaling

\* A catch block that also puts back the history the handler started from.
catchRollsBack(c) ==
    /\ error' = FailMessage(c.kind)
    /\ history' = c.hist
    /\ historyIndex' = c.idx
    /\ UNCHANGED <<crop, completedCrop, expandRect>>

\* The catch block of an action: setError(...), nothing else (App.tsx:250-253,
\* 287-290, 309-312, 394-397, 483-486).
catchBlock(c) ==
    /\ error' = FailMessage(c.kind)
    /\ UNCHANGED <<history, historyIndex, crop, completedCrop, expandRect>>

\* The collaborator promise of call c resolves with an image of the given size:
\* the rest of the try block and the finally block (App.tsx:247-249, 254-256;
\* 285-286, 291-293; 307-308, 313-315; 392-393, 398-400; 481-482, 487-489).
\* A completion that never clears the reference image.
clearReferenceNever(kind) == UNCHANGED retouchReferenceImage

\* setRetouchReferenceImage(null) after a retouch's addImageToHistory
\* (App.tsx:249); the other handlers leave the reference image alone.
clearReference(kind) ==
    retouchReferenceImage' = IF kind = "retouch" THEN Null ELSE retouchReferenceImage

resolve(c, size) ==
    /\ c \in inflight
    /\ addImageToHistory(c.hist, c.idx, File(c.id, size[1], size[2]))
    /\ finallyBlock(c.kind)
    /\ inflight' = inflight \ {c}
    /\ UNCHANGED <<prompt, error, activeTab, imageDimensions, dragState,
                   isGeneratingImage, isConfirmModalOpen, nextId, containerWidth,
                   timerPending>>
    /\ clearReference(c.kind)
    /\ UNCHANGED <<isImprovingPrompt, improving>>
    /\ UNCHANGED <<apiResponse, apiResult>>
    /\ Render

\* The collaborator promise of call c rejects (handleApiResponse throws, the
\* transport fails), or dataURLtoFile throws on the answer: the catch block and
\* the finally block (App.tsx:250-256, 287-293, 309-315, 394-400, 483-489).
reject(c) ==
    /\ c \in inflight
    /\ catchBlock(c)
    /\ finallyBlock(c.kind)
    /\ inflight' = inflight \ {c}
    /\ UNCHANGED <<prompt, activeTab, imageDimensions, dragState,
                   isGeneratingImage, isConfirmModalOpen, nextId, containerWidth,
                   timerPending>>
    /\ UNCHANGED <<isImprovingPrompt, improving, retouchReferenceImage>>
    /\ UNCHANGED <<apiResponse, apiResult>>
    /\ Render

\* handleApplyCrop (App.tsx:318-360), from the CropPanel's button (App.tsx:730).
\* The panel's own source is not part of src/: its button is taken to be
\* clickable whenever the panel is rendered, which allows every click the real
\* panel allows.  pixelRatio is
\* window.devicePixelRatio || 1; ctxOk is whether getContext('2d') gave a context.
\* A canvas without pixels serialises to "data:," from which dataURLtoFile cannot
\* parse a MIME type (App.tsx:25-26): it throws, and the handler has no catch.
\* The size of the canvas the crop is drawn on and serialised from
\* (App.tsx:338-340).
cropCanvas(pixelCrop, pixelRatio) ==
    [width |-> pixelCrop.width * pixelRatio, height |-> pixelCrop.height * pixelRatio]

\* What handleApplyCrop leaves in error: its two setError calls (App.tsx:319-322,
\* 333-336); the exception of dataURLtoFile is not caught and sets nothing.
cropError(ctxOk) ==
    IF completedCrop = Null THEN "Please select an area to crop."
    ELSE IF ~ctxOk THEN "Could not process the crop."
    ELSE error

\* handleApplyCrop reaches addImageToHistory (App.tsx:358): both checks pass and
\* the canvas has pixels.
cropAppends(pixelRatio, ctxOk) ==
    /\ completedCrop # Null /\ ctxOk
    /\ cropCanvas(Val(completedCrop), pixelRatio).width > 0
    /\ cropCanvas(Val(completedCrop), pixelRatio).height > 0

\* dataURLtoFile throws inside handleApplyCrop (App.tsx:25-26, 356-357), which
\* has no try block: the exception leaves the handler.
cropThrows(pixelRatio, ctxOk) ==
    /\ completedCrop # Null /\ ctxOk
    /\ ~cropAppends(pixelRatio, ctxOk)

handleApplyCrop(pixelRatio, ctxOk) ==
    /\ EditorShown /\ activeTab = "crop"
    /\ error' = cropError(ctxOk)
    /\ IF cropAppends(pixelRatio, ctxOk)
       THEN LET canvas == cropCanvas(Val(completedCrop), pixelRatio)
            IN  /\ nextId <= MaxFiles
                /\ addImageToHistory(history, historyIndex,
                                     File(nextId, canvas.width, canvas.height))
                /\ nextId' = nextId + 1
       ELSE UNCHANGED <<history, historyIndex, crop, completedCrop, expandRect, nextId>>
    /\ UNCHANGED <<prompt, isLoading, isUpscaling, activeTab, imageDimensions,
                   dragState, isGeneratingImage, isConfirmModalOpen, inflight,
                   containerWidth, timerPending>>
    /\ UNCHANGED <<isImprovingPrompt, improving, retouchReferenceImage>>
    /\ UNCHANGED <<apiResponse, apiResult>>
    /\ Render

\* ---------------------------------------------------- expand frame dragging
\* handleExpandMouseDown (App.tsx:403-414), on one of the eight handles drawn on
\* the frame (App.tsx:609-647); the busy overlay lies above the handles.
\* handleExpandMouseDown capturing the image's rectangle instead of the frame's.
handleExpandMouseDownFromImage(handle, x, y) ==
    /\ EditorShown /\ activeTab = "expand" /\ expandRect # Null /\ ~OverlayShown
    /\ dragState' = Some([handle |-> handle, initialRect |-> imgBox,
                          initialMouseX |-> x, initialMouseY |-> y])
    /\ UNCHANGED <<history, historyIndex, prompt, isLoading, isUpscaling, error,
                   activeTab, crop, completedCrop, imageDimensions, expandRect,
                   isGeneratingImage, isConfirmModalOpen, inflight, nextId,
                   containerWidth, timerPending, isImprovingPrompt, improving,
                   retouchReferenceImage>>
    /\ UNCHANGED <<apiResponse, apiResult>>
    /\ Render

handleExpandMouseDown(handle, x, y) ==
    /\ EditorShown /\ activeTab = "expand" /\ expandRect # Null /\ ~OverlayShown
    /\ dragState' = Some([handle |-> handle, initialRect |-> Val(expandRect),
                          initialMouseX |-> x, initialMouseY |-> y])
    /\ UNCHANGED <<history, historyIndex, prompt, isLoading, isUpscaling, error,
                   activeTab, crop, completedCrop, imageDimensions, expandRect,
                   isGeneratingImage, isConfirmModalOpen, inflight, nextId,
                   containerWidth, timerPending>>
    /\ UNCHANGED <<isImprovingPrompt, improving, retouchReferenceImage>>
    /\ UNCHANGED <<apiResponse, apiResult>>
    /\ Render

\* A move without the constraints that keep the frame around the image.
MovedRectUnconstrained(ds, x, y, box) ==
    LET deltaX == x - ds.initialMouseX
        deltaY == y - ds.initialMouseY
        r == ds.initialRect
        newTop == IF Includes(ds.handle, "n") THEN r.top + deltaY ELSE r.top
        newBottom == IF Includes(ds.handle, "s") THEN r.top + r.height + deltaY
                     ELSE r.top + r.height
        newLeft == IF Includes(ds.handle, "w") THEN r.left + deltaX ELSE r.left
        newRight == IF Includes(ds.handle, "e") THEN r.left + r.width + deltaX
                    ELSE r.left + r.width
    IN  [top |-> newTop, left |-> newLeft,
         width |-> newRight - newLeft, height |-> newBottom - newTop]

\* The rectangle handleMouseMove computes (App.tsx:110-152) for the pointer at
\* (x, y), the drag state ds and the displayed image box.
MovedRect(ds, x, y, box) ==
    LET deltaX == x - ds.initialMouseX
        deltaY == y - ds.initialMouseY
        r == ds.initialRect
        imgTop == box.top
        imgLeft == box.left
        imgRight == imgLeft + box.width
        imgBottom == imgTop + box.height
        top0 == IF Includes(ds.handle, "n") THEN r.top + deltaY ELSE r.top
        bottom0 == IF Includes(ds.handle, "s") THEN r.top + r.height + deltaY
                   ELSE r.top + r.height
        left0 == IF Includes(ds.handle, "w") THEN r.left + deltaX ELSE r.left
        right0 == IF Includes(ds.handle, "e") THEN r.left + r.width + deltaX
                  ELSE r.left + r.width
        newTop == IF top0 > imgTop THEN imgTop ELSE top0
        newLeft == IF left0 > imgLeft THEN imgLeft ELSE left0
        newRight == IF right0 < imgRight THEN imgRight ELSE right0
        newBottom == IF bottom0 < imgBottom THEN imgBottom ELSE bottom0
    IN  [top |-> newTop, left |-> newLeft,
         width |-> newRight - newLeft, height |-> newBottom - newTop]

\* The bound on the frame: no edge further than MaxPointer from the image's.
WithinReach(rect, box) ==
    /\ rect.top >= box.top - MaxPointer
    /\ rect.left >= box.left - MaxPointer
    /\ rect.left + rect.width <= box.left + box.width + MaxPointer
    /\ rect.top + rect.height <= box.top + box.height + MaxPointer

\* handleMouseMove (App.tsx:107-153): a window listener while dragState is set.
handleMouseMove(x, y) ==
    /\ dragState # Null
    /\ RefsMounted => WithinReach(MovedRect(Val(dragState), x, y, imgBox), imgBox)
    /\ expandRect' = IF RefsMounted
                     THEN Some(MovedRect(Val(dragState), x, y, imgBox))
                     ELSE expandRect
    /\ UNCHANGED <<history, historyIndex, prompt, isLoading, isUpscaling, error,
                   activeTab, crop, completedCrop, imageDimensions, dragState,
                   isGeneratingImage, isConfirmModalOpen, inflight, nextId,
                   containerWidth, timerPending>>
    /\ UNCHANGED <<isImprovingPrompt, improving, retouchReferenceImage>>
    /\ UNCHANGED <<apiResponse, apiResult>>
    /\ Render

\* handleMouseUp (App.tsx:155-157): a window listener while dragState is set.
handleMouseUp ==
    /\ dragState # Null
    /\ dragState' = Null
    /\ UNCHANGED <<history, historyIndex, prompt, isLoading, isUpscaling, error,
                   activeTab, crop, completedCrop, imageDimensions, expandRect,
                   isGeneratingImage, isConfirmModalOpen, inflight, nextId,
                   containerWidth, timerPending>>
    /\ UNCHANGED <<isImprovingPrompt, improving, retouchReferenceImage>>
    /\ UNCHANGED <<apiResponse, apiResult>>
    /\ Render

\* ------------------------------------------------- the collaborator's answer
\* A GenerateContentResponse as handleApiResponse reads it (App.tsx:856-893):
\* promptFeedback?.blockReason, and per candidate its content parts and its
\* finishReason.  A part is a text part or carries inlineData (an image).
ImageParts == {"image1", "image2"}
PartKinds == {"text"} \cup ImageParts
PartLists == UNION {[1..n -> PartKinds] : n \in 0..MaxParts}
BlockReasons == {Null, Some("SAFETY")}
FinishReasons == {Null, Some("STOP"), Some("SAFETY")}
Candidates == [parts : PartLists, finishReason : FinishReasons]
LaterCandidate == [parts |-> <<"image2">>, finishReason |-> Some("STOP")]
Responses ==
    [blockReason : BlockReasons,
     candidates : {<<>>} \cup {<<c>> : c \in Candidates}
                         \cup {<<c, LaterCandidate>> : c \in Candidates}]

\* parts?.find(part => part.inlineData) on the first candidate (App.tsx:869).
imagePartFromResponse(response) ==
    IF response.candidates = <<>> THEN Null
    ELSE LET parts == response.candidates[1].parts
             found == {i \in 1..Len(parts) : parts[i] \in ImageParts}
         IN  IF found = {} THEN Null
             ELSE Some(parts[CHOOSE i \in found : \A j \in found : i <= j])

finishReason(response) ==
    IF response.candidates = <<>> THEN Null ELSE response.candidates[1].finishReason

\* What handleApiResponse does with a response: return a data URL or throw.
\* The messages are kept up to the context name and the quoted details.
Returned(image) == [url |-> Some(image), error |-> Null]
Thrown(message) == [url |-> Null, error |-> Some(message)]

\* handleApiResponse looking at the finish reason before the image part.
handleApiResponseFinishFirst(response) ==
    IF response.blockReason # Null THEN Thrown("Request was blocked.")
    ELSE IF finishReason(response) # Null /\ finishReason(response) # Some("STOP")
    THEN Thrown("Image generation stopped unexpectedly.")
    ELSE IF imagePartFromResponse(response) # Null
    THEN Returned(Val(imagePartFromResponse(response)))
    ELSE Thrown("The AI model did not return an image.")

handleApiResponse(response) ==
    IF response.blockReason # Null THEN Thrown("Request was blocked.")
    ELSE IF imagePartFromResponse(response) # Null
    THEN Returned(Val(imagePartFromResponse(response)))
    ELSE IF finishReason(response) # Null /\ finishReason(response) # Some("STOP")
    THEN Thrown("Image generation stopped unexpectedly.")
    ELSE Thrown("The AI model did not return an image.")

\* The service layer receives the collaborator's response ...
receiveResponse(response) ==
    /\ apiResult # Null \/ apiResponse = Null
    /\ apiResponse' = Some(response)
    /\ apiResult' = Null
    /\ UNCHANGED <<history, historyIndex, prompt, isLoading, isUpscaling, error,
                   activeTab, crop, completedCrop, imageDimensions, expandRect,
                   dragState, isGeneratingImage, isConfirmModalOpen, inflight, nextId,
                   containerWidth, renderedWidth, loadPending, timerPending,
                   isImprovingPrompt, improving, retouchReferenceImage>>
    /\ UNCHANGED objectUrls

\* ... and hands it to handleApiResponse (App.tsx:946, 988, 1030, 1096, 1119).
classifyResponse ==
    /\ apiResponse # Null /\ apiResult = Null
    /\ apiResult' = Some(handleApiResponse(Val(apiResponse)))
    /\ UNCHANGED <<history, historyIndex, prompt, isLoading, isUpscaling, error,
                   activeTab, crop, completedCrop, imageDimensions, expandRect,
                   dragState, isGeneratingImage, isConfirmModalOpen, inflight, nextId,
                   containerWidth, renderedWidth, loadPending, timerPending,
                   isImprovingPrompt, improving, retouchReferenceImage, apiResponse>>
    /\ UNCHANGED objectUrls

\* ------------------------------------------------------------ specification
PointerRange == (0 - MaxPointer)..MaxPointer

\* The inputs of Spec.  Spec is the whole component under an environment that
\* keeps the tools' geometry coarse: one window size and no resize, files of one
\* size, a device pixel ratio of 1, a 2d context that is always available, an
\* empty or a non-blank prompt, crop selections of the whole picture, and drags
\* of the south-east handle from the origin by one pixel each way.  SpecTools
\* below refines the geometry.
CoarseSizes == {<<4, 2>>}
CoarseWidths == {4}
CoarseHandles == {"se"}
CoarsePrompts == {"", "p"}
CoarseMoves == {<<1, 1>>}
CoarseCrops == IF currentImage = Null THEN {}
               ELSE {c \in CropSelections(imgBox) : c.width = imgBox.width}

\* The state after the first render of App (App.tsx:44-70), in a window that
\* lays the container out at the width cw.
InitAt(cw) ==
    /\ history = <<>>
    /\ historyIndex = -1
    /\ prompt = ""
    /\ isLoading = FALSE
    /\ isUpscaling = FALSE
    /\ error = NoError
    /\ activeTab = "retouch"
    /\ crop = Null
    /\ completedCrop = Null
    /\ imageDimensions = Null
    /\ expandRect = Null
    /\ dragState = Null
    /\ isGeneratingImage = FALSE
    /\ isConfirmModalOpen = FALSE
    /\ inflight = {}
    /\ nextId = 1
    /\ containerWidth = cw
    /\ renderedWidth = cw
    /\ loadPending = FALSE
    /\ timerPending = FALSE
    /\ isImprovingPrompt = FALSE
    /\ improving = 0
    /\ retouchReferenceImage = Null
    /\ apiResponse = Null
    /\ apiResult = Null
    /\ objectUrls = [current |-> {}, original |-> {}, reference |-> {}, expand |-> 0]

Init == \E cw \in CoarseWidths : InitAt(cw)

Next ==
    \/ \E size \in CoarseSizes : handleFileSelect(size)
    \/ openGenerateModal
    \/ closeGenerateModal
    \/ \E size \in CoarseSizes : handleGeneratedImage(size)
    \/ handleUndo
    \/ handleRedo
    \/ handleReset
    \/ clickUploadNew
    \/ handleLogoClick
    \/ handleConfirmLeave
    \/ handleCancelLeave
    \/ \E p \in CoarsePrompts : setPrompt(p)
    \/ \E tab \in Tabs : setActiveTab(tab)
    \/ expandInitTimer
    \/ handleImageLoad
    \/ tryAgain
    \/ \E c \in CoarseCrops : onCropComplete(c)
    \/ handleGenerate
    \/ handleApplyFilter
    \/ handleApplyAdjustment
    \/ handleUpscale
    \/ handleApplyExpand
    \/ \E c \in inflight, size \in CoarseSizes : resolve(c, size)
    \/ \E c \in inflight : reject(c)
    \/ handleApplyCrop(1, TRUE)
    \/ \E handle \in CoarseHandles : handleExpandMouseDown(handle, 0, 0)
    \/ \E m \in CoarseMoves : handleMouseMove(m[1], m[2])
    \/ handleMouseUp

Spec == Init /\ [][Next]_vars

\* SpecTools is the component under an environment that exercises the tools'
\* preconditions in a window of one size: files of every size in NaturalSizes,
\* every prompt, every crop selection, a 2d context that may be missing, and
\* the coarse drags of Spec.  The other panels, undo and the leave dialog are
\* left to Spec, the frame's geometry to SpecFrame.
ToolTabs == {"retouch", "crop", "expand"}

InitTools == \E cw \in CoarseWidths : InitAt(cw)

NextTools ==
    \/ \E size \in NaturalSizes : handleFileSelect(size)
    \/ \E p \in Prompts : setPrompt(p)
    \/ \E tab \in ToolTabs : setActiveTab(tab)
    \/ expandInitTimer
    \/ handleImageLoad
    \/ tryAgain
    \/ \E c \in ShownCropSelections : onCropComplete(c)
    \/ handleGenerate
    \/ handleApplyExpand
    \/ \E c \in inflight, size \in NaturalSizes : resolve(c, size)
    \/ \E c \in inflight : reject(c)
    \/ \E ctxOk \in BOOLEAN : handleApplyCrop(1, ctxOk)
    \/ \E handle \in CoarseHandles : handleExpandMouseDown(handle, 0, 0)
    \/ \E m \in CoarseMoves : handleMouseMove(m[1], m[2])
    \/ handleMouseUp

SpecTools == InitTools /\ [][NextTools]_vars

\* SpecFrame is the component under an environment that exercises the expand
\* frame: files of every size in NaturalSizes, both window widths and resizes
\* between them, every handle, and every pointer position in PointerRange after
\* a grab at the origin.  The actions that change the history after the upload
\* are left to Spec and SpecTools.
FrameTabs == {"retouch", "expand"}

InitFrame == \E cw \in ContainerWidths : InitAt(cw)

NextFrame ==
    \/ \E size \in NaturalSizes : handleFileSelect(size)
    \/ \E tab \in FrameTabs : setActiveTab(tab)
    \/ expandInitTimer
    \/ handleImageLoad
    \/ \E w \in ContainerWidths : resize(w)
    \/ \E handle \in Handles : handleExpandMouseDown(handle, 0, 0)
    \/ \E x \in PointerRange, y \in PointerRange : handleMouseMove(x, y)
    \/ handleMouseUp

SpecFrame == InitFrame /\ [][NextFrame]_vars

\* SpecScale is the expand tool over images from a quarter of the window's
\* width to twice it, so that the scale between natural and displayed
\* pixels runs from 1/4 to 2: every handle, every pointer position, the panel's
\* size read-out on every render and the Expand button.
ScaleSizes == {<<1, 1>>, <<2, 2>>, <<4, 2>>}

NextScale ==
    \/ \E size \in ScaleSizes : handleFileSelect(size)
    \/ handleImageLoad
    \/ setActiveTab("expand")
    \/ expandInitTimer
    \/ \E handle \in Handles : handleExpandMouseDown(handle, 0, 0)
    \/ \E x \in PointerRange, y \in PointerRange : handleMouseMove(x, y)
    \/ handleMouseUp
    \/ handleApplyExpand
    \/ \E c \in inflight : reject(c)
    \/ tryAgain

SpecScale == InitFrame /\ [][NextScale]_vars

\* SpecAsync is Spec without the crop tool: the crop is synchronous, awaits
\* nothing and touches no busy flag (App.tsx:318-360).
NextAsync ==
    \/ \E size \in CoarseSizes : handleFileSelect(size)
    \/ openGenerateModal
    \/ closeGenerateModal
    \/ \E size \in CoarseSizes : handleGeneratedImage(size)
    \/ handleUndo
    \/ handleRedo
    \/ handleReset
    \/ clickUploadNew
    \/ handleLogoClick
    \/ handleConfirmLeave
    \/ handleCancelLeave
    \/ \E p \in CoarsePrompts : setPrompt(p)
    \/ \E tab \in Tabs : setActiveTab(tab)
    \/ expandInitTimer
    \/ handleImageLoad
    \/ tryAgain
    \/ handleGenerate
    \/ handleApplyFilter
    \/ handleApplyAdjustment
    \/ handleUpscale
    \/ handleApplyExpand
    \/ \E c \in inflight, size \in CoarseSizes : resolve(c, size)
    \/ \E c \in inflight : reject(c)
    \/ \E handle \in CoarseHandles : handleExpandMouseDown(handle, 0, 0)
    \/ \E m \in CoarseMoves : handleMouseMove(m[1], m[2])
    \/ handleMouseUp

SpecAsync == Init /\ [][NextAsync]_vars

\* Fairness for the liveness claims: a collaborator promise that is pending
\* settles.
settle == \E c \in inflight : reject(c) \/ \E size \in CoarseSizes : resolve(c, size)

FairSpec == SpecAsync /\ WF_vars(settle)

\* SpecRetouch is the retouch tab with every way of becoming busy and of
\* failing: the prompt, Generate, the prompt improver, Upscale, their answers,
\* Try Again and undo/redo.
NextRetouch ==
    \/ \E size \in CoarseSizes : handleFileSelect(size)
    \/ handleImageLoad
    \/ \E p \in CoarsePrompts : setPrompt(p)
    \/ handleGenerate
    \/ handleImprovePrompt
    \/ \E p \in CoarsePrompts : improveResolve(p)
    \/ improveReject
    \/ handleUpscale
    \/ \E c \in inflight, size \in CoarseSizes : resolve(c, size)
    \/ \E c \in inflight : reject(c)
    \/ tryAgain
    \/ handleUndo
    \/ handleRedo

SpecRetouch == Init /\ [][NextRetouch]_vars

\* SpecReference is the retouch tab with a reference image: picking and
\* removing it, retouches and upscales that succeed, fail validation or are
\* rejected, Try Again and Upload New.
NextReference ==
    \/ \E size \in CoarseSizes : handleFileSelect(size)
    \/ handleImageLoad
    \/ \E p \in CoarsePrompts : setPrompt(p)
    \/ \E file \in ReferenceImages : handleReferenceImageSelect(file)
    \/ removeReferenceImage
    \/ handleGenerate
    \/ handleUpscale
    \/ \E c \in inflight, size \in CoarseSizes : resolve(c, size)
    \/ \E c \in inflight : reject(c)
    \/ tryAgain
    \/ clickUploadNew

SpecReference == Init /\ [][NextReference]_vars

\* SpecApi is handleApiResponse over every response in Responses.
NextApi ==
    \/ \E response \in Responses : receiveResponse(response)
    \/ classifyResponse

SpecApi == Init /\ [][NextApi]_vars

\* SpecUrls is the component with everything that creates an object URL: the
\* three display effects under uploads, appends, undo, redo and the reference
\* image, and the expand request, whose input image loads or fails to load.
UrlTabs == {"retouch", "expand"}

NextUrls ==
    \/ \E size \in CoarseSizes : handleFileSelect(size)
    \/ handleImageLoad
    \/ \E tab \in UrlTabs : setActiveTab(tab)
    \/ expandInitTimer
    \/ \E file \in ReferenceImages : handleReferenceImageSelect(file)
    \/ removeReferenceImage
    \/ \E handle \in CoarseHandles : handleExpandMouseDown(handle, 0, 0)
    \/ \E m \in CoarseMoves : handleMouseMove(m[1], m[2])
    \/ handleMouseUp
    \/ handleApplyExpand
    \/ handleApplyExpandImageError
    \/ \E c \in inflight, size \in CoarseSizes : resolve(c, size)
    \/ \E c \in inflight : reject(c)
    \/ tryAgain
    \/ handleUndo
    \/ handleRedo
    \/ clickUploadNew

SpecUrls == Init /\ [][NextUrls]_vars

\* ------------------------------------------------------------------ claims
\* A step that appends the file at the end of history': the completion of an
\* action, or a crop.
appendStep ==
    \/ \E c \in inflight, size \in NaturalSizes : resolve(c, size)
    \/ /\ \E pixelRatio \in PixelRatios : handleApplyCrop(pixelRatio, TRUE)
       /\ history' # history

\* A step that replaces or clears the whole history by the user's request.
replaceStep ==
    \/ \E size \in NaturalSizes : handleFileSelect(size) \/ handleGeneratedImage(size)
    \/ clickUploadNew
    \/ handleConfirmLeave
    \/ handleLogoClick

\* C1: in every reachable state, historyIndex is -1 exactly when history is
\* empty, and otherwise 0 <= historyIndex < history.length.
C1_CursorInRange ==
    /\ (historyIndex = -1) <=> (Len(history) = 0)
    /\ Len(history) > 0 => (0 <= historyIndex /\ historyIndex < Len(history))

\* C1 witness: a history of three snapshots with the cursor in the middle, which
\* takes an upload, two appends and an undo (or a reset and a redo).
C1_Witness == Len(history) = 3 /\ historyIndex = 1

\* C2: every append of a snapshot S to a history with cursor c yields the old
\* entries 0..c followed by S, with the cursor on S (c + 1).
C2_AppendTruncatesAtCursor ==
    [][appendStep =>
          /\ history' = Append(SubSeq(history, 1, historyIndex + 1),
                               history'[Len(history')])
          /\ historyIndex' = historyIndex + 1]_vars

\* C3: undo at cursor 0 and redo at the last cursor change nothing; at any other
\* cursor undo followed at once by redo gives back the cursor and the current
\* snapshot; neither alters the history sequence.
C3_UndoRedo ==
    /\ [](historyIndex = 0 => UndoIndex(history, historyIndex) = historyIndex)
    /\ [](historyIndex = Len(history) - 1 =>
             RedoIndex(history, historyIndex) = historyIndex)
    /\ [][handleUndo =>
             /\ history' = history
             /\ historyIndex' = historyIndex - 1
             /\ RedoIndex(history', historyIndex') = historyIndex
             /\ history'[RedoIndex(history', historyIndex') + 1] = Val(currentImage)]_vars
    /\ [][handleRedo =>
             /\ history' = history
             /\ historyIndex' = historyIndex + 1
             /\ UndoIndex(history', historyIndex') = historyIndex]_vars

\* C3 witness: a cursor that is neither the first nor the last, reached by an undo.
C3_Witness == canUndo /\ canRedo /\ error = NoError

\* C4: reset from any cursor of a non-empty history sets the cursor to 0 and
\* leaves the sequence alone; at cursor 0 it changes nothing; on an empty
\* history it is a no-op.
C4_Reset ==
    /\ [][handleReset => historyIndex' = 0 /\ history' = history]_vars
    /\ [](Len(history) > 0 => ResetIndex(history, historyIndex) = 0)
    /\ [](Len(history) = 0 => ResetIndex(history, historyIndex) = -1)

\* C4 witness: the cursor on the original with two snapshots after it.
C4_Witness == Len(history) = 3 /\ historyIndex = 0

\* C5: history[0] changes only by Upload New, a leave, or a new upload or
\* generated-image accept; no append, undo, redo, reset or action completion
\* changes it.
C5_OriginalKept ==
    [][originalImage' # originalImage => replaceStep]_vars

\* C6: when the collaborator call of an action rejects, history and cursor are
\* the same before and after, and an error message is set.
C6_RejectLeavesHistory ==
    [][\A c \in inflight :
          reject(c) => /\ history' = history
                       /\ historyIndex' = historyIndex
                       /\ error' # NoError]_vars

\* C6 witness: the error of a rejected expand call is shown over a loaded image.
C6_Witness == error = FailMessage("expand") /\ currentImage # Null

\* C7: at most one action is in flight at any time.
C7_OneInFlight == Cardinality(inflight) <= 1

\* C8: the step that settles an action's promise clears the action's busy flag,
\* on success and on failure; with every promise settling, a busy flag that is
\* set is eventually clear.
C8_BusyCleared ==
    /\ [][\A c \in inflight :
             (reject(c) \/ \E size \in NaturalSizes : resolve(c, size)) =>
                 IF c.kind = "upscale" THEN ~isUpscaling' ELSE ~isLoading']_vars
    /\ (isLoading ~> ~isLoading)
    /\ (isUpscaling ~> ~isUpscaling)

\* C8 witness: both busy flags set, with both promises pending.
C8_Witness == isLoading /\ isUpscaling /\ Cardinality(inflight) = 2

\* The rectangle rect contains the rectangle box.
Contains(rect, box) ==
    /\ rect.top <= box.top
    /\ rect.left <= box.left
    /\ rect.left + rect.width >= box.left + box.width
    /\ rect.top + rect.height >= box.top + box.height

\* C9: whenever the expand rectangle is set, by the initialisation after
\* entering the expand tab or by a pointer-move with any handle, it contains
\* the displayed image's bounding box: the timer sets such a frame, every step
\* that changes the frame leaves such a frame, and in every state with a handle
\* held, a pointer-move to any position computes such a frame.
C9_FrameContainsImage ==
    /\ [][(expandInitTimer /\ RefsMounted)
             => (expandRect' # Null /\ Contains(Val(expandRect'), imgBox'))]_vars
    /\ [][(expandRect' # expandRect /\ expandRect' # Null)
             => Contains(Val(expandRect'), imgBox')]_vars
    /\ []((dragState # Null /\ RefsMounted) =>
             \A x \in PointerRange, y \in PointerRange :
                 Contains(MovedRect(Val(dragState), x, y, imgBox), imgBox))

\* C9 witness: a frame pulled outwards on two sides, still held by its handle,
\* in a window that was resized after the frame was initialised.
C9_Witness ==
    /\ dragState # Null /\ expandRect # Null /\ RefsMounted
    /\ Val(expandRect) # Val(dragState).initialRect
    /\ Val(expandRect).top < imgBox.top
    /\ Val(expandRect).left < imgBox.left
    /\ Val(dragState).initialRect.width # imgBox.width

\* The frame, in the pixels of the current snapshot, is not larger than the
\* snapshot in either dimension.
FrameNotLarger ==
    /\ expandRect # Null /\ currentImage # Null
    /\ LET natural == [width |-> Val(currentImage).width,
                       height |-> Val(currentImage).height]
       IN  ~ExpansionHappened(ExpandTarget(Val(expandRect), natural, imgBox), natural)

\* A submission is refused: an error is reported, no call is made, the busy
\* flags are as before, history and cursor are unchanged.
Refused ==
    /\ error' # NoError
    /\ inflight' = inflight
    /\ isLoading' = isLoading /\ isUpscaling' = isUpscaling
    /\ history' = history /\ historyIndex' = historyIndex

\* C10: a retouch with an empty or whitespace-only prompt, a crop-apply with no
\* completed selection, and an expand-apply with a frame not larger than the
\* natural image in either dimension are refused.
C10_ValidationRefuses ==
    [][/\ (handleGenerate /\ Trim(prompt) = "") => Refused
       /\ ((\E ctxOk \in BOOLEAN : handleApplyCrop(1, ctxOk)) /\ completedCrop = Null)
             => Refused
       /\ (handleApplyExpand /\ FrameNotLarger) => Refused]_vars

\* The crop tool's apply step, and whether the completed selection has an area.
cropStep == \E pixelRatio \in PixelRatios, ctxOk \in BOOLEAN : handleApplyCrop(pixelRatio, ctxOk)

CropHasArea ==
    /\ completedCrop # Null
    /\ Val(completedCrop).width > 0 /\ Val(completedCrop).height > 0

\* C11: crop-apply appends a snapshot only for a completed selection of positive
\* area; for a completed selection of zero width or zero height it reports a
\* validation error and leaves history unchanged.
C11_CropNeedsArea ==
    /\ [][cropStep =>
             /\ history' # history => CropHasArea
             /\ (completedCrop # Null /\ ~CropHasArea) =>
                   (error' # NoError /\ history' = history /\ historyIndex' = historyIndex)]_vars
    /\ []((EditorShown /\ activeTab = "crop" /\ completedCrop # Null /\ ~CropHasArea) =>
             \A ctxOk \in BOOLEAN : cropError(ctxOk) # NoError)

\* The real pixel size of the current snapshot.
naturalSize == [width |-> Val(currentImage).width, height |-> Val(currentImage).height]

\* C12: expand-apply sends the target round(expandRect.width * s) by
\* round(expandRect.height * s), s being naturalWidth / displayedWidth of the
\* current image, and the expand panel shows the same numbers; a 1000x800 image
\* displayed at 500x400 with the east edge dragged out by 50 gives 1100 x 800.
C12_ExpandTarget ==
    /\ [][handleApplyExpand =>
             \A c \in inflight' \ inflight :
                 /\ c.target = Some(ExpandTarget(Val(expandRect), naturalSize, imgBox))
                 /\ c.target = newDimensions]_vars
    /\ [](ExpandTarget([top |-> 0, left |-> 0, width |-> 550, height |-> 400],
                       [width |-> 1000, height |-> 800],
                       [top |-> 0, left |-> 0, width |-> 500, height |-> 400])
             = [width |-> 1100, height |-> 800])

\* C13: once the current snapshot has loaded, imageDimensions is the real pixel
\* width and height of the current snapshot.
C13_DimensionsCurrent ==
    (currentImage # Null /\ OnLoadImgMounted /\ ~loadPending)
        => imageDimensions = Some(naturalSize)

\* C14: a logo click while historyIndex > 0 opens the confirmation dialog and
\* leaves history and cursor unchanged; while the dialog is open history is
\* cleared only by the confirm, which also closes the dialog; cancel closes the
\* dialog and leaves history and cursor unchanged; a logo click while
\* historyIndex <= 0 clears history at once without a dialog.
C14_LeaveNeedsConfirm ==
    /\ [][(handleLogoClick /\ historyIndex > 0) =>
             (isConfirmModalOpen' /\ history' = history /\ historyIndex' = historyIndex)]_vars
    /\ [][(handleLogoClick /\ historyIndex <= 0) =>
             (~isConfirmModalOpen' /\ history' = <<>> /\ historyIndex' = -1)]_vars
    /\ [][handleConfirmLeave =>
             (~isConfirmModalOpen' /\ history' = <<>> /\ historyIndex' = -1)]_vars
    /\ [][handleCancelLeave =>
             (~isConfirmModalOpen' /\ history' = history /\ historyIndex' = historyIndex)]_vars
    /\ [][(isConfirmModalOpen /\ history # <<>> /\ history' = <<>>) => handleConfirmLeave]_vars

\* C14 witness: the dialog is open over edited history while a call is pending.
C14_Witness == isConfirmModalOpen /\ historyIndex > 0 /\ inflight # {}

\* C15: Upload New and a confirmed leave empty the history (cursor -1) from any
\* state, and an empty history becomes non-empty again only by a file upload or
\* the acceptance of a generated image.
C15_EmptyUntilUpload ==
    /\ [][(clickUploadNew \/ handleConfirmLeave) =>
             (history' = <<>> /\ historyIndex' = -1)]_vars
    /\ [][(history = <<>> /\ history' # <<>>) =>
             \E size \in NaturalSizes : handleFileSelect(size) \/ handleGeneratedImage(size)]_vars

\* C16: pressing Try Again clears the error and the three busy flags and leaves
\* the history and the cursor unchanged, so that the view returns to the
\* snapshot that was current before the failure: the snapshot under the cursor
\* does not change while the error is shown.
C16_TryAgain ==
    /\ [][tryAgain => /\ error' = NoError
                      /\ ~isLoading' /\ ~isUpscaling' /\ ~isImprovingPrompt'
                      /\ history' = history /\ historyIndex' = historyIndex]_vars
    /\ [][(error # NoError /\ error' # NoError) => currentImage' = currentImage]_vars

\* C17: every append of a snapshot to history clears the pending tool state:
\* after it the crop selection and the completed crop are undefined and the
\* expand rectangle is null.
C17_AppendClearsTools ==
    [][(history' # history /\ appendStep) =>
           crop' = Null /\ completedCrop' = Null /\ expandRect' = Null]_vars

\* An answer has been appended on the expand tab, where the frame had been laid
\* over the image: the frame is gone and no timer will bring it back.
C17_Witness ==
    /\ activeTab = "expand" /\ error = NoError /\ ~timerPending
    /\ historyIndex > 0 /\ historyIndex = Len(history) - 1
    /\ expandRect = Null /\ inflight = {}

\* The displayed size (w, h) of the expand frame, scaled to natural pixels as
\* target = round(w * s), round(h * s) with s = natural / displayed, comes back
\* within tol displayed pixels when target is scaled by 1 / s:
\* |target / s - w| <= tol, in integers |target * displayed - w * natural| <= tol * natural.
Abs(n) == IF n < 0 THEN 0 - n ELSE n

RoundTripWithin(tol) ==
    newDimensions # Null =>
        LET natural == Val(imageDimensions).width
            displayed == BoxAt(renderedWidth, Val(currentImage)).width
            rect == Val(expandRect)
            target == Val(newDimensions)
        IN  /\ Abs(target.width * displayed - rect.width * natural) <= tol * natural
            /\ Abs(target.height * displayed - rect.height * natural) <= tol * natural

ScaleAtLeastHalf ==
    newDimensions # Null =>
        2 * Val(imageDimensions).width >= BoxAt(renderedWidth, Val(currentImage)).width

\* C18 as stated: for every displayed rectangle size and every scale the
\* editor can produce, scaling to natural pixels with rounding and scaling back
\* reproduces the displayed width and height within 1 pixel.
C18_RoundTripAnyScale == RoundTripWithin(1)

\* C18 as amended: the round trip stays within 1 displayed pixel whenever the
\* natural width is at least half the displayed width (s >= 1/2).
C18_RoundTrip == ScaleAtLeastHalf => RoundTripWithin(1)

\* An expand request is in flight for a frame whose natural size was rounded,
\* at a scale of at least 1/2 other than 1.
C18_Witness ==
    /\ newDimensions # Null /\ ScaleAtLeastHalf
    /\ \E c \in inflight : c.kind = "expand" /\ c.target = newDimensions
    /\ Val(newDimensions).width * BoxAt(renderedWidth, Val(currentImage)).width
           # Val(expandRect).width * Val(imageDimensions).width

\* C19: crop-apply renders onto a surface whose size is the crop's natural
\* pixel size, crop.width * naturalWidth / displayedWidth by
\* crop.height * naturalHeight / displayedHeight, times the device pixel
\* ratio, and the appended snapshot has those dimensions.
C19_CropNaturalSize ==
    [][\A pixelRatio \in PixelRatios :
          (handleApplyCrop(pixelRatio, TRUE) /\ history' # history) =>
              LET image == BoxAt(renderedWidth, Val(currentImage))
                  pixelCrop == Val(completedCrop)
                  snapshot == history'[Len(history')]
              IN  /\ snapshot.width =
                         Round(pixelCrop.width * naturalSize.width * pixelRatio, image.width)
                  /\ snapshot.height =
                         Round(pixelCrop.height * naturalSize.height * pixelRatio, image.height)]_vars

\* C20: the drag controller is Idle (dragState null) until a pointer-down on
\* one of the eight handles while an expand rectangle exists, which captures
\* the current rectangle and the pointer position; from Dragging a pointer-up
\* is always possible and returns it to Idle; while Idle the expand rectangle
\* is changed by no pointer-move: only the initialising timer sets it and only
\* a reset to null removes it.
C20_DragController ==
    /\ [][(dragState = Null /\ dragState' # Null) =>
             /\ expandRect # Null
             /\ \E handle \in Handles, x \in PointerRange, y \in PointerRange :
                   /\ handleExpandMouseDown(handle, x, y)
                   /\ dragState' = Some([handle |-> handle,
                                         initialRect |-> Val(expandRect),
                                         initialMouseX |-> x, initialMouseY |-> y])]_vars
    /\ [][handleMouseUp => dragState' = Null]_vars
    /\ [](dragState # Null => ENABLED handleMouseUp)
    /\ [][(dragState = Null /\ expandRect' # expandRect) =>
             (expandRect' = Null \/ expandInitTimer)]_vars

\* A second drag is under way: the captured rectangle is a frame that had
\* already been dragged away from the image, and the pointer has moved it again.
C20_Witness ==
    /\ dragState # Null /\ expandRect # Null /\ RefsMounted
    /\ Val(dragState).initialRect # imgBox
    /\ Val(expandRect) # Val(dragState).initialRect

\* The four edges of a rectangle.
Edges(rect) ==
    [top |-> rect.top, left |-> rect.left,
     right |-> rect.left + rect.width, bottom |-> rect.top + rect.height]

\* C21: during a drag a pointer-move leaves every edge the handle does not
\* name equal to initialRect's (handles e and w leave top and bottom, n and s
\* leave left and right, a diagonal handle leaves the two opposite edges), and
\* each edge the handle names is the initial edge moved by the pointer's
\* delta, clamped on its own at the image's edge.
C21_HandleMovesItsEdges ==
    (dragState # Null /\ RefsMounted) =>
        \A x \in PointerRange, y \in PointerRange :
            LET ds == Val(dragState)
                init == Edges(ds.initialRect)
                new == Edges(MovedRect(ds, x, y, imgBox))
                img == Edges(imgBox)
                deltaX == x - ds.initialMouseX
                deltaY == y - ds.initialMouseY
                Min(a, b) == IF a < b THEN a ELSE b
                Max(a, b) == IF a > b THEN a ELSE b
            IN  /\ new.top = IF Includes(ds.handle, "n")
                             THEN Min(init.top + deltaY, img.top) ELSE init.top
                /\ new.bottom = IF Includes(ds.handle, "s")
                                THEN Max(init.bottom + deltaY, img.bottom) ELSE init.bottom
                /\ new.left = IF Includes(ds.handle, "w")
                              THEN Min(init.left + deltaX, img.left) ELSE init.left
                /\ new.right = IF Includes(ds.handle, "e")
                               THEN Max(init.right + deltaX, img.right) ELSE init.right

\* C22: every failure inside an action is caught by its handler and turned
\* into the error message, and appends nothing: a call that fails (the
\* collaborator rejects, or the snapshot file cannot be built from its data
\* URL) sets the action's message and leaves history and cursor alone, and no
\* exception leaves the crop handler, whatever the selection, the pixel ratio
\* and the canvas context.
C22_FailuresCaught ==
    /\ [][\A c \in inflight :
             reject(c) => /\ error' = FailMessage(c.kind)
                          /\ history' = history /\ historyIndex' = historyIndex]_vars
    /\ []((EditorShown /\ activeTab = "crop") =>
             \A pixelRatio \in PixelRatios, ctxOk \in BOOLEAN :
                 ~cropThrows(pixelRatio, ctxOk))

\* C23: when an action completes successfully after the state was changed
\* while it was in flight (undo, redo, reset, a crop-apply or another
\* completion, all within the same upload), its result is appended relative
\* to the history and cursor at the time of completion: the entries up to the
\* current cursor are kept, the result follows them and the cursor is on it.
C23_AppendAtCompletion ==
    [][\A c \in inflight, size \in NaturalSizes :
          (resolve(c, size) /\ history # <<>> /\ history[1] = c.hist[1]) =>
              /\ Len(history') = historyIndex + 2
              /\ \A i \in 1..historyIndex + 1 : history'[i] = history[i]
              /\ history'[Len(history')].id = c.id
              /\ historyIndex' = Len(history') - 1]_vars

\* C24: the retouch reference image is cleared only by a successful retouch,
\* by the user removing it or by Upload New; a successful retouch does clear
\* it, together with the append of its snapshot; it is unchanged by a retouch
\* that failed validation and by a retouch whose call was rejected.
C24_ReferenceKept ==
    /\ [][(retouchReferenceImage # Null /\ retouchReferenceImage' = Null) =>
             \/ \E c \in inflight, size \in NaturalSizes :
                   c.kind = "retouch" /\ resolve(c, size)
             \/ removeReferenceImage
             \/ clickUploadNew \/ handleLogoClick \/ handleConfirmLeave]_vars
    /\ [][\A c \in inflight, size \in NaturalSizes :
             (c.kind = "retouch" /\ resolve(c, size)) =>
                 /\ retouchReferenceImage' = Null
                 /\ history'[Len(history')].id = c.id]_vars
    /\ [][(handleGenerate /\ error' # NoError) =>
             retouchReferenceImage' = retouchReferenceImage]_vars
    /\ [][\A c \in inflight :
             (c.kind = "retouch" /\ reject(c)) =>
                 retouchReferenceImage' = retouchReferenceImage]_vars

\* A retouch with a reference image was rejected: its message is shown and the
\* reference image is still set.
C24_Witness ==
    /\ error = FailMessage("retouch")
    /\ retouchReferenceImage # Null
    /\ inflight = {}

\* C25: the response is classified in a fixed order: with a block reason it
\* fails, even if it carries an image; otherwise, if its first candidate has an
\* image part, it succeeds with that image, whatever the finish reason;
\* otherwise it fails, with the stopped-early message when a finish reason
\* other than STOP is present and the no-image message if not.  Every response
\* yields a result or an error and none yields both.
C25_ResponseClassified ==
    apiResult # Null =>
        LET response == Val(apiResponse)
            result == Val(apiResult)
            first == IF response.candidates = <<>> THEN <<>>
                     ELSE response.candidates[1].parts
            images == {i \in 1..Len(first) : first[i] \in ImageParts}
            finish == IF response.candidates = <<>> THEN Null
                      ELSE response.candidates[1].finishReason
        IN  /\ (result.url = Null) # (result.error = Null)
            /\ response.blockReason # Null =>
                   result.error = Some("Request was blocked.")
            /\ (response.blockReason = Null /\ images # {}) =>
                   \E i \in images : /\ \A j \in images : i <= j
                                     /\ result.url = Some(first[i])
            /\ (response.blockReason = Null /\ images = {}) =>
                   result.error = IF finish \notin {Null, Some("STOP")}
                                  THEN Some("Image generation stopped unexpectedly.")
                                  ELSE Some("The AI model did not return an image.")

\* A response without a block reason whose first candidate stopped for SAFETY
\* and still carries an image after a text part was classified as a success.
C25_Witness ==
    /\ apiResult # Null /\ apiResponse # Null
    /\ Val(apiResponse).blockReason = Null
    /\ Val(apiResponse).candidates # <<>>
    /\ Val(apiResponse).candidates[1].finishReason = Some("SAFETY")
    /\ Val(apiResponse).candidates[1].parts = <<"text", "image1">>
    /\ Val(apiResult).url = Some("image1")

\* C26: every object URL created for a snapshot is revoked: a display URL
\* (current, original, reference) is live only for the file it shows now, the
\* expand-input URL is revoked before the expand request ends, on success and
\* on failure, and so at most three object URLs are live whatever the number
\* of edits.
C26_UrlsRevoked ==
    /\ objectUrls.current \subseteq (IF currentImage = Null THEN {} ELSE {Val(currentImage)})
    /\ objectUrls.original \subseteq (IF originalImage = Null THEN {} ELSE {Val(originalImage)})
    /\ objectUrls.reference \subseteq
           (IF retouchReferenceImage = Null THEN {} ELSE {Val(retouchReferenceImage)})
    /\ objectUrls.expand = 0
    /\ Cardinality(objectUrls.current) + Cardinality(objectUrls.original)
           + Cardinality(objectUrls.reference) + objectUrls.expand <= 3

\* C27: the busy flags are accurate in every reachable state: isLoading is
\* true whenever a retouch, filter, adjustment or expand call is awaiting the
\* collaborator, and isUpscaling whenever an upscale call is.
C27_BusyFlagsAccurate ==
    /\ (\E c \in inflight : c.kind \in {"retouch", "filter", "adjustment", "expand"})
           => isLoading
    /\ (\E c \in inflight : c.kind = "upscale") => isUpscaling

\* C28: for every expand-apply that passes validation, the current image
\* placed at the computed offset lies entirely inside the new canvas:
\* offset x and y are not negative, and offset plus the image's natural width
\* and height do not exceed the target width and height.
C28_ImageInsideCanvas ==
    [][handleApplyExpand =>
          \A c \in inflight' \ inflight :
              LET target == Val(c.target)
                  offset == Val(c.offset)
              IN  /\ offset.x >= 0 /\ offset.y >= 0
                  /\ offset.x + naturalSize.width <= target.width
                  /\ offset.y + naturalSize.height <= target.height]_vars

\* C29: within one drag the expand rectangle after a pointer-move depends only
\* on the drag's initialRect, the handle, the image bounds and the pointer
\* position, not on earlier moves: every rectangle a move leaves is the one a
\* single move to some pointer position gives, and a move back to the initial
\* pointer position restores initialRect.
C29_MoveFromInitialRect ==
    /\ [][(dragState # Null /\ dragState' = dragState /\ RefsMounted
             /\ expandRect' # expandRect /\ expandRect' # Null) =>
             \E x \in PointerRange, y \in PointerRange :
                 expandRect' = Some(MovedRect(Val(dragState), x, y, imgBox))]_vars
    /\ []((dragState # Null /\ RefsMounted) =>
             MovedRect(Val(dragState), Val(dragState).initialMouseX,
                       Val(dragState).initialMouseY, imgBox)
                 = Val(dragState).initialRect)

\* C30: a completed crop selection always refers to the snapshot that is
\* current: whenever another snapshot becomes current (append, undo, redo,
\* reset, upload) the completed crop is cleared.
C30_CropOfCurrentSnapshot ==
    [][(currentImage' # currentImage /\ currentImage' # Null) => completedCrop' = Null]_vars

====
